---- MODULE Spec2Model ----
(***************************************************************************)
(* Model of the Poultry record-keeping API: the Employee and EggInventory  *)
(* route handlers (GET/POST/PUT/DELETE) running against the Prisma store.  *)
(* Every `await` on a Prisma call is one atomic database step; the code    *)
(* between two awaits runs with the step that precedes it.                 *)
(*                                                                         *)
(* JSON numbers are integers counting thousandths (30 is 30000, 18.5 is    *)
(* 18500), strings are sequences of one-character strings, a JSON object   *)
(* is a record whose DOMAIN is the set of keys it carries.                 *)
(***************************************************************************)
EXTENDS Integers, Sequences, FiniteSets, Bags, TLC

\* ---------------------------------------------------------------- bounds
NumClients == 2     \* requests that can be in flight at once
MaxIds == 2         \* records created per entity in one behaviour
MaxWrites == 3      \* timestamped writes (create/update) in one behaviour
MaxPage == 3        \* pages the employee list page is taken to
ViewRecords == 11   \* employees stored when the employee list page is opened

\* ------------------------------------------------------- program constants
MinAge == 18
MaxAge == 100
MaxFullName == 100
PhoneDigits == 10
AadharDigits == 12
MinSalary == 1
MinWork == 10
MaxWork == 1000

\* ---------------------------------------------------------------- helpers
Num(whole, thousandths) == whole * 1000 + thousandths
IsInteger(n) == n % 1000 = 0
Rep(c, n) == [i \in 1..n |-> c]
Digits == {"0", "1", "2", "3", "4", "5", "6", "7", "8", "9"}
IsDigits(s, n) == Len(s) = n /\ \A i \in 1..Len(s) : s[i] \in Digits
Restrict(f, S) == [k \in S |-> f[k]]
Merge(old, patch) ==
  [k \in DOMAIN old |-> IF k \in DOMAIN patch THEN patch[k] ELSE old[k]]

Ids == 1..MaxIds

\* a JSON member whose value is not of the type the schema gives its key
\* (a string for a number, a number for a string) is not among the keys of
\* the record: the key is listed under "#mistyped" instead
Mistyped(body) ==
  IF "#mistyped" \in DOMAIN body THEN body["#mistyped"] ELSE {}
\* a request body that is not JSON text: request.json() throws SyntaxError
NotJson == [k \in {"#unparseable"} |-> {}]
Without(body, k) == Restrict(body, DOMAIN body \ {k})
WithMistyped(body, k) == Without(body, k) @@ ("#mistyped" :> {k})

\* inflight: the bag of requests between their first and their last database
\* call, each with its handler's local variables; resp: the response sent by
\* the last step, NoResp when that step sent none
VARIABLES employees, eggs, nextEmpId, nextEggId, now, inflight, resp
\* the browser: cache is the query cache of the hooks, mutations the bag of
\* mutations started by the controls and not yet settled
VARIABLES cache, mutations
\* the employee list page: view is its component state, the page and the
\* search text it asks useEmployees for
VARIABLES view
vars ==
  <<employees, eggs, nextEmpId, nextEggId, now, inflight, resp,
    cache, mutations, view>>

NoResp == [op |-> "none"]
None == {}
\* the body of a request that carries none: an object with no keys
NoBody == <<>>
Response(op, id, body, status, error, result) ==
  [op |-> op, id |-> id, body |-> body,
   status |-> status, error |-> error, result |-> result]
Pending == BagToSet(inflight)
CanStart(limit) == BagCardinality(inflight) < limit
Suspend(q) == inflight (+) SetToBag({q})
Resume(q) == inflight (-) SetToBag({q})

\* ------------------------------------------------------ Employee validation
EmployeeFields ==
  {"fullName", "age", "gender", "maritalStatus", "phoneNumber",
   "aadharNumber", "salary", "workEmployedToDo"}

\* the field checks with no bounds on age
EmployeeFieldValidAnyAge(k, v) ==
  CASE k = "fullName" -> Len(v) >= 1 /\ Len(v) <= MaxFullName
    [] k = "age" -> TRUE
    [] k = "gender" -> v \in {"MALE", "FEMALE", "OTHER"}
    [] k = "maritalStatus" -> v \in {"BACHELOR", "MARRIED", "HAS_FAMILY"}
    [] k = "phoneNumber" -> IsDigits(v, PhoneDigits)
    [] k = "aadharNumber" -> IsDigits(v, AadharDigits)
    [] k = "salary" -> v >= Num(MinSalary, 0)
    [] k = "workEmployedToDo" -> Len(v) >= MinWork /\ Len(v) <= MaxWork
EmployeeFieldValid(k, v) ==
  CASE k = "fullName" -> Len(v) >= 1 /\ Len(v) <= MaxFullName
    [] k = "age" -> v >= Num(MinAge, 0) /\ v <= Num(MaxAge, 0)
    [] k = "gender" -> v \in {"MALE", "FEMALE", "OTHER"}
    [] k = "maritalStatus" -> v \in {"BACHELOR", "MARRIED", "HAS_FAMILY"}
    [] k = "phoneNumber" -> IsDigits(v, PhoneDigits)
    [] k = "aadharNumber" -> IsDigits(v, AadharDigits)
    [] k = "salary" -> v >= Num(MinSalary, 0)
    [] k = "workEmployedToDo" -> Len(v) >= MinWork /\ Len(v) <= MaxWork

\* error.errors of employeeSchema.parse: the fields with an issue, which
\* are those absent, of the wrong type, or failing their check
EmployeeIssues(body) ==
  {k \in EmployeeFields :
     k \notin DOMAIN body \/ ~EmployeeFieldValid(k, body[k])}
\* employeeSchema.parse succeeds: every key present and valid
employeeSchema(body) == EmployeeIssues(body) = {}

\* updateEmployeeSchema = employeeSchema.partial(): only supplied keys checked
UpdateEmployeeIssues(body) ==
  {k \in EmployeeFields :
     \/ k \in Mistyped(body)
     \/ k \in DOMAIN body /\ ~EmployeeFieldValid(k, body[k])}
updateEmployeeSchema(body) == UpdateEmployeeIssues(body) = {}

\* a parse that keeps every key of the body
EmployeeUnstripped(body) == body
\* the parsed value: zod strips the keys the schema does not name
EmployeeParsed(body) == Restrict(body, EmployeeFields \cap DOMAIN body)

\* ------------------------------------------------------- Employee storage
\* Decimal(12,2): the store keeps hundredths, rounding the third decimal
ToDecimal2(n) == (n + 5) \div 10
\* age Int: the client refuses a number with a fractional part
EmployeeStorable(data) == "age" \in DOMAIN data => IsInteger(data.age)

\* column values of the supplied keys
EmployeeColumns(data) ==
  [k \in DOMAIN data |->
     IF k = "age" THEN data[k] \div 1000
     ELSE IF k = "salary" THEN ToDecimal2(data[k])
     ELSE data[k]]

\* the record as the JSON response carries it
EmployeeJson(e) ==
  [k \in EmployeeFields |->
     IF k = "age" THEN Num(e[k], 0)
     ELSE IF k = "salary" THEN e[k] * 10
     ELSE e[k]]

\* a pre-check that finds nothing
AadharNeverFound(a) == FALSE
AadharTaken(a) == \E e \in employees : e.aadharNumber = a
EmployeeById(id) == {e \in employees : e.id = id}

\* the unique index on aadhar_number, applied by the store at write time
\* the same insert on a column declared without @unique
EmployeeNoUniqueIndex(data) == TRUE
EmployeeUniqueOnCreate(data) ==
  \A e \in employees : e.aadharNumber # data.aadharNumber
EmployeeUniqueOnUpdate(data, id) ==
  "aadharNumber" \in DOMAIN data =>
    \A e \in employees : e.id # id => e.aadharNumber # data.aadharNumber

\* the condition without the comparison to the record's own number
AadharSupplied(data, existingEmployee) == "aadharNumber" \in DOMAIN data
\* PUT looks the aadhar number up only under this condition
AadharChanged(data, existingEmployee) ==
  /\ "aadharNumber" \in DOMAIN data
  /\ data.aadharNumber # existingEmployee.aadharNumber

NewEmployee(id, data, t) ==
  [c \in DOMAIN data \cup {"id", "createdAt", "updatedAt"} |->
     IF c = "id" THEN id
     ELSE IF c \in {"createdAt", "updatedAt"} THEN t
     ELSE EmployeeColumns(data)[c]]

\* an update that writes every column, taking the ones not supplied from
\* the record as it was first created
UpdatedEmployeeWhole(e, data, t) ==
  [k \in DOMAIN e |->
     IF k \in DOMAIN data THEN EmployeeColumns(data)[k]
     ELSE IF k = "updatedAt" THEN t
     ELSE IF k = "fullName" THEN <<"A", "s", "h", "a">>
     ELSE e[k]]
\* update({ where: { id }, data }): the supplied columns are written over
\* the row as it is at the time of the write
UpdatedEmployee(e, data, t) ==
  [Merge(e, EmployeeColumns(data)) EXCEPT !.updatedAt = t]

\* ----------------------------------------------------------- request inputs
Aadhar1 == Rep("1", 12)
Aadhar2 == Rep("2", 12)
Name1 == <<"A", "s", "h", "a">>
Name2 == <<"R", "a", "o">>
BaseEmployee ==
  [fullName |-> Name1, age |-> Num(30, 0), gender |-> "FEMALE",
   maritalStatus |-> "MARRIED", phoneNumber |-> Rep("9", 10),
   aadharNumber |-> Aadhar1, salary |-> Num(50000, 0),
   workEmployedToDo |-> Rep("w", 10)]

EmployeePostBodies ==
  { BaseEmployee,
    [BaseEmployee EXCEPT !.aadharNumber = Aadhar2, !.salary = Num(1234, 567)],
    [BaseEmployee EXCEPT !.aadharNumber = Aadhar2, !.age = Num(18, 500)],
    [BaseEmployee EXCEPT !.aadharNumber = Rep("1", 11)] }

EmployeePutBodies ==
  { [aadharNumber |-> Aadhar1],
    [aadharNumber |-> Aadhar2],
    [fullName |-> Name2],
    [age |-> Num(17, 0)],
    [age |-> Num(41, 0), salary |-> Num(60000, 0)],
    [fullName |-> Name2, maritalStatus |-> "BACHELOR", id |-> 9,
     createdAt |-> 0] }

\* bodies of the requests sent while both entities are in use
EmployeeApiPostBodies ==
  { BaseEmployee,
    Without(BaseEmployee, "gender"),
    [BaseEmployee EXCEPT !.age = Num(17, 0)],
    WithMistyped(BaseEmployee, "salary"),
    NotJson }
EmployeeApiPutBodies ==
  { [fullName |-> Name2],
    [aadharNumber |-> Aadhar2],
    [age |-> Num(101, 0)],
    WithMistyped([fullName |-> Name2, age |-> Num(41, 0)], "age"),
    NotJson }

\* updates of one record that supply disjoint fields, and one that moves
\* its aadhar number
EmployeeMergePostBodies == { BaseEmployee }
EmployeeMergePutBodies ==
  { [fullName |-> Name2],
    [age |-> Num(41, 0), salary |-> Num(60000, 0)],
    [aadharNumber |-> Aadhar2] }

EmployeeRacePostBodies ==
  { BaseEmployee, [BaseEmployee EXCEPT !.aadharNumber = Aadhar2] }
EmployeeRacePutBodies ==
  { [aadharNumber |-> Aadhar1], [aadharNumber |-> Aadhar2] }

\* ------------------------------------------------------------ Employee POST
EmpPostCheck(limit, bodies) ==
  /\ CanStart(limit)
  /\ \E body \in bodies :
       IF body = NotJson
       THEN /\ resp' = Response("empPOST", 0, body, 500, "internal", None)
            /\ UNCHANGED inflight
       ELSE IF ~employeeSchema(body)
       THEN /\ resp' = Response("empPOST", 0, body, 400, "validation",
                                 EmployeeIssues(body))
            /\ UNCHANGED inflight
       ELSE IF AadharTaken(EmployeeParsed(body).aadharNumber)
       THEN /\ resp' = Response("empPOST", 0, body, 400, "conflict", None)
            /\ UNCHANGED inflight
       ELSE /\ inflight' = Suspend([pc |-> "write", op |-> "empPOST", id |-> 0,
                                    body |-> body, data |-> EmployeeParsed(body)])
            /\ resp' = NoResp
  /\ UNCHANGED <<employees, eggs, nextEmpId, nextEggId, now, cache, mutations,
                 view>>

EmpPostWrite ==
  \E q \in Pending :
    /\ q.pc = "write" /\ q.op = "empPOST"
    /\ inflight' = Resume(q)
    /\ IF ~EmployeeStorable(q.data) \/ ~EmployeeUniqueOnCreate(q.data)
       THEN /\ resp' = Response("empPOST", 0, q.body, 500, "internal", None)
            /\ UNCHANGED <<employees, nextEmpId, now>>
       ELSE /\ nextEmpId <= MaxIds /\ now <= MaxWrites
            /\ LET e == NewEmployee(nextEmpId, q.data, now) IN
                 /\ employees' = employees \cup {e}
                 /\ resp' = Response("empPOST", e.id, q.body, 201, "none", {e})
            /\ nextEmpId' = nextEmpId + 1
            /\ now' = now + 1
    /\ UNCHANGED <<eggs, nextEggId, cache, mutations, view>>

\* ------------------------------------------------------------- Employee PUT
EmpPutRead(limit, bodies) ==
  /\ CanStart(limit)
  /\ \E id \in Ids, body \in bodies :
       IF body = NotJson
       THEN /\ resp' = Response("empPUT", id, body, 500, "internal", None)
            /\ UNCHANGED inflight
       ELSE IF ~updateEmployeeSchema(body)
       THEN /\ resp' = Response("empPUT", id, body, 400, "validation",
                                 UpdateEmployeeIssues(body))
            /\ UNCHANGED inflight
       ELSE IF EmployeeById(id) = {}
       THEN /\ resp' = Response("empPUT", id, body, 404, "notfound", None)
            /\ UNCHANGED inflight
       ELSE LET existingEmployee == CHOOSE e \in EmployeeById(id) : TRUE
                data == EmployeeParsed(body)
            IN /\ inflight' = Suspend(
                    [pc |-> IF AadharChanged(data, existingEmployee)
                            THEN "check" ELSE "write",
                     op |-> "empPUT", id |-> id, body |-> body, data |-> data])
               /\ resp' = NoResp
  /\ UNCHANGED <<employees, eggs, nextEmpId, nextEggId, now, cache, mutations,
                 view>>

EmpPutAadharCheck ==
  \E q \in Pending :
    /\ q.pc = "check" /\ q.op = "empPUT"
    /\ IF AadharTaken(q.data.aadharNumber)
       THEN /\ inflight' = Resume(q)
            /\ resp' = Response("empPUT", q.id, q.body, 400, "conflict", None)
       ELSE /\ inflight' = Resume(q) (+) SetToBag({[q EXCEPT !.pc = "write"]})
            /\ resp' = NoResp
    /\ UNCHANGED <<employees, eggs, nextEmpId, nextEggId, now,
                   cache, mutations, view>>

EmpPutWrite ==
  \E q \in Pending :
    /\ q.pc = "write" /\ q.op = "empPUT"
    /\ inflight' = Resume(q)
    /\ IF \/ EmployeeById(q.id) = {}
          \/ ~EmployeeStorable(q.data)
          \/ ~EmployeeUniqueOnUpdate(q.data, q.id)
       THEN /\ resp' = Response("empPUT", q.id, q.body, 500, "internal", None)
            /\ UNCHANGED <<employees, now>>
       ELSE /\ now <= MaxWrites
            /\ LET old == CHOOSE e \in EmployeeById(q.id) : TRUE
                   new == UpdatedEmployee(old, q.data, now)
               IN /\ employees' = (employees \ {old}) \cup {new}
                  /\ resp' = Response("empPUT", q.id, q.body, 200, "none", {new})
            /\ now' = now + 1
    /\ UNCHANGED <<eggs, nextEmpId, nextEggId, cache, mutations, view>>

\* ---------------------------------------------------------- Employee DELETE
\* a delete that reports success when it finds no record
EmpDeleteReadSilent(limit) ==
  /\ CanStart(limit)
  /\ \E id \in Ids :
       IF EmployeeById(id) = {}
       THEN /\ resp' = Response("empDELETE", id, NoBody, 200, "none", None)
            /\ UNCHANGED inflight
       ELSE /\ inflight' = Suspend([pc |-> "write", op |-> "empDELETE", id |-> id])
            /\ resp' = NoResp
  /\ UNCHANGED <<employees, eggs, nextEmpId, nextEggId, now, cache, mutations,
                 view>>
EmpDeleteRead(limit) ==
  /\ CanStart(limit)
  /\ \E id \in Ids :
       IF EmployeeById(id) = {}
       THEN /\ resp' = Response("empDELETE", id, NoBody, 404, "notfound", None)
            /\ UNCHANGED inflight
       ELSE /\ inflight' = Suspend([pc |-> "write", op |-> "empDELETE", id |-> id])
            /\ resp' = NoResp
  /\ UNCHANGED <<employees, eggs, nextEmpId, nextEggId, now, cache, mutations,
                 view>>

EmpDeleteWrite ==
  \E q \in Pending :
    /\ q.pc = "write" /\ q.op = "empDELETE"
    /\ inflight' = Resume(q)
    /\ IF EmployeeById(q.id) = {}
       THEN /\ resp' = Response("empDELETE", q.id, NoBody, 500, "internal", None)
            /\ UNCHANGED employees
       ELSE /\ employees' = employees \ EmployeeById(q.id)
            /\ resp' = Response("empDELETE", q.id, NoBody, 200, "none", None)
    /\ UNCHANGED <<eggs, nextEmpId, nextEggId, now, cache, mutations, view>>

\* ------------------------------------------------------- Employee GET ?id=
EmpGet(limit) ==
  /\ CanStart(limit)
  /\ \E id \in Ids :
       IF EmployeeById(id) = {}
       THEN resp' = Response("empGET", id, NoBody, 404, "notfound", None)
       ELSE resp' = Response("empGET", id, NoBody, 200, "none", EmployeeById(id))
  /\ UNCHANGED <<employees, eggs, nextEmpId, nextEggId, now, inflight,
                 cache, mutations, view>>

\* -------------------------------------------------- EggInventory validation
NaN == -1
MsPerDay == 86400000

\* date strings: "YYYY-MM-DD", "YYYY-MM-DDTHH:MM:SS.sssZ", or other text
DateOnly(day) == [form |-> "date", day |-> day, ms |-> 0]
DateTime(day, ms) == [form |-> "datetime", day |-> day, ms |-> ms]
NotADate == [form |-> "text", day |-> 0, ms |-> 0]

\* Date.parse(s) / new Date(s).getTime(): milliseconds since the epoch, UTC
DateParse(s) == IF s.form = "text" THEN NaN ELSE s.day * MsPerDay + s.ms
\* date.toISOString().split('T')[0]
ISODatePart(t) == DateOnly(t \div MsPerDay)

EggCountFields == {"crack_eggs", "jumbo_eggs", "normal_eggs"}
EggFields == {"date"} \cup EggCountFields

EggFieldValid(k, v) ==
  IF k = "date" THEN DateParse(v) # NaN ELSE IsInteger(v) /\ v >= 0

\* error.errors of eggInventorySchema.parse
EggIssues(body) ==
  {k \in EggFields : k \notin DOMAIN body \/ ~EggFieldValid(k, body[k])}
eggInventorySchema(body) == EggIssues(body) = {}

UpdateEggIssues(body) ==
  {k \in EggFields :
     \/ k \in Mistyped(body)
     \/ k \in DOMAIN body /\ ~EggFieldValid(k, body[k])}
updateEggInventorySchema(body) == UpdateEggIssues(body) = {}

EggParsed(body) == Restrict(body, EggFields \cap DOMAIN body)

\* ------------------------------------------------------ EggInventory storage
EggById(id) == {g \in eggs : g.id = id}
EggDateTaken(t) == \E g \in eggs : g.date = t
EggDateTakenByOther(t, id) == \E g \in eggs : g.date = t /\ g.id # id

\* the same insert had date been declared @unique
EggInsertUniqueDate(data) == ~EggDateTaken(data.date)
\* model EggInventory declares no unique index: the store takes every insert
EggInsertAccepted(data) == TRUE

\* the data object POST hands to prisma.eggInventory.create
EggCreateData(body) ==
  LET validatedData == EggParsed(body)
      total_eggs == validatedData.crack_eggs + validatedData.jumbo_eggs
                    + validatedData.normal_eggs
  IN [date |-> DateParse(validatedData.date),
      crack_eggs |-> validatedData.crack_eggs \div 1000,
      jumbo_eggs |-> validatedData.jumbo_eggs \div 1000,
      normal_eggs |-> validatedData.normal_eggs \div 1000,
      total_eggs |-> total_eggs \div 1000]

NewEgg(id, data, t) ==
  [c \in DOMAIN data \cup {"id", "created_at", "updated_at"} |->
     IF c = "id" THEN id
     ELSE IF c \in {"created_at", "updated_at"} THEN t
     ELSE data[c]]

\* PUT looks for another record with the date only under this condition
EggDateChanged(body, existingInventory) ==
  LET validatedData == EggParsed(body) IN
    /\ "date" \in DOMAIN validatedData
    /\ validatedData.date # ISODatePart(existingInventory.date)

\* the update with total_eggs summed over the supplied counts only
EggUpdateDataPartialSum(body, existingInventory) ==
  LET validatedData == EggParsed(body)
      Count(k) == IF k \in DOMAIN validatedData
                  THEN validatedData[k] \div 1000 ELSE 0
      total_eggs == IF EggCountFields \cap DOMAIN validatedData # {}
                    THEN Count("crack_eggs") + Count("jumbo_eggs")
                         + Count("normal_eggs")
                    ELSE existingInventory.total_eggs
  IN [k \in DOMAIN validatedData \cup {"total_eggs"} |->
        IF k = "total_eggs" THEN total_eggs
        ELSE IF k = "date" THEN DateParse(validatedData.date)
        ELSE validatedData[k] \div 1000]

\* the update that spreads the request body over the computed total
EggUpdateDataTrusting(body, existingInventory) ==
  LET validatedData == EggParsed(body)
      Count(k) == IF k \in DOMAIN validatedData
                  THEN validatedData[k] \div 1000 ELSE existingInventory[k]
      total_eggs == IF "total_eggs" \in DOMAIN body
                    THEN body.total_eggs \div 1000
                    ELSE IF EggCountFields \cap DOMAIN validatedData # {}
                    THEN Count("crack_eggs") + Count("jumbo_eggs")
                         + Count("normal_eggs")
                    ELSE existingInventory.total_eggs
  IN [k \in DOMAIN validatedData \cup {"total_eggs"} |->
        IF k = "total_eggs" THEN total_eggs
        ELSE IF k = "date" THEN DateParse(validatedData.date)
        ELSE validatedData[k] \div 1000]

\* the data object PUT hands to prisma.eggInventory.update
EggUpdateData(body, existingInventory) ==
  LET validatedData == EggParsed(body)
      Count(k) == IF k \in DOMAIN validatedData
                  THEN validatedData[k] \div 1000 ELSE existingInventory[k]
      total_eggs == IF EggCountFields \cap DOMAIN validatedData # {}
                    THEN Count("crack_eggs") + Count("jumbo_eggs")
                         + Count("normal_eggs")
                    ELSE existingInventory.total_eggs
  IN [k \in DOMAIN validatedData \cup {"total_eggs"} |->
        IF k = "total_eggs" THEN total_eggs
        ELSE IF k = "date" THEN DateParse(validatedData.date)
        ELSE validatedData[k] \div 1000]

UpdatedEgg(g, data, t) == [Merge(g, data) EXCEPT !.updated_at = t]

\* ----------------------------------------------------------- request inputs
Day1 == DateOnly(1)
Day1At10 == DateTime(1, 36000000)
EggPostBodies ==
  { [date |-> Day1, crack_eggs |-> Num(5, 0), jumbo_eggs |-> Num(2, 0),
     normal_eggs |-> Num(93, 0)],
    [date |-> Day1At10, crack_eggs |-> Num(1, 0), jumbo_eggs |-> Num(2, 0),
     normal_eggs |-> Num(3, 0)],
    [date |-> Day1At10, crack_eggs |-> Num(1, 0), jumbo_eggs |-> Num(2, 0),
     normal_eggs |-> Num(3, 0), total_eggs |-> Num(999, 0)],
    [date |-> NotADate, crack_eggs |-> Num(1, 0), jumbo_eggs |-> Num(2, 0),
     normal_eggs |-> Num(3, 0)],
    [crack_eggs |-> Num(1, 0), jumbo_eggs |-> Num(2, 0),
     normal_eggs |-> Num(3, 0)] }

EggCountPatch == [crack_eggs |-> Num(4, 0), jumbo_eggs |-> Num(3, 0),
                  normal_eggs |-> Num(6, 0)]
EggPutBodies ==
  { Restrict(EggCountPatch, S) : S \in SUBSET EggCountFields }
  \cup { [date |-> Day1], [date |-> Day1At10],
         [jumbo_eggs |-> Num(3, 0), total_eggs |-> Num(999, 0)],
         [total_eggs |-> Num(999, 0)],
         [crack_eggs |-> 0 - Num(1, 0)] }

\* bodies of the requests sent while both entities are in use
BaseEgg ==
  [date |-> Day1, crack_eggs |-> Num(5, 0), jumbo_eggs |-> Num(2, 0),
   normal_eggs |-> Num(93, 0)]
EggApiPostBodies ==
  { BaseEgg,
    Without(BaseEgg, "normal_eggs"),
    [BaseEgg EXCEPT !.jumbo_eggs = Num(2, 500)],
    WithMistyped(BaseEgg, "crack_eggs"),
    NotJson }
EggApiPutBodies ==
  { [crack_eggs |-> Num(4, 0)],
    [date |-> Day1At10],
    [crack_eggs |-> 0 - Num(1, 0)],
    WithMistyped([jumbo_eggs |-> Num(3, 0), date |-> Day1], "date"),
    NotJson }

EggRacePostBodies ==
  { [date |-> Day1, crack_eggs |-> Num(5, 0), jumbo_eggs |-> Num(2, 0),
     normal_eggs |-> Num(93, 0)] }
EggRacePutBodies ==
  { [crack_eggs |-> Num(4, 0)], [jumbo_eggs |-> Num(3, 0)],
    [date |-> Day1At10] }

\* -------------------------------------------------------- EggInventory POST
EggPostCheck(limit, bodies) ==
  /\ CanStart(limit)
  /\ \E body \in bodies :
       IF body = NotJson
       THEN /\ resp' = Response("eggPOST", 0, body, 500, "internal", None)
            /\ UNCHANGED inflight
       ELSE IF ~eggInventorySchema(body)
       THEN /\ resp' = Response("eggPOST", 0, body, 400, "validation",
                                 EggIssues(body))
            /\ UNCHANGED inflight
       ELSE IF EggDateTaken(DateParse(EggParsed(body).date))
       THEN /\ resp' = Response("eggPOST", 0, body, 400, "conflict", None)
            /\ UNCHANGED inflight
       ELSE /\ inflight' = Suspend([pc |-> "write", op |-> "eggPOST", id |-> 0,
                                    body |-> body])
            /\ resp' = NoResp
  /\ UNCHANGED <<employees, eggs, nextEmpId, nextEggId, now, cache, mutations,
                 view>>

EggPostWrite ==
  \E q \in Pending :
    /\ q.pc = "write" /\ q.op = "eggPOST"
    /\ inflight' = Resume(q)
    /\ IF ~EggInsertAccepted(EggCreateData(q.body))
       THEN /\ resp' = Response("eggPOST", 0, q.body, 500, "internal", None)
            /\ UNCHANGED <<eggs, nextEggId, now>>
       ELSE /\ nextEggId <= MaxIds /\ now <= MaxWrites
            /\ LET g == NewEgg(nextEggId, EggCreateData(q.body), now) IN
                 /\ eggs' = eggs \cup {g}
                 /\ resp' = Response("eggPOST", g.id, q.body, 201, "none", {g})
            /\ nextEggId' = nextEggId + 1
            /\ now' = now + 1
    /\ UNCHANGED <<employees, nextEmpId, cache, mutations, view>>

\* --------------------------------------------------------- EggInventory PUT
EggPutRead(limit, bodies) ==
  /\ CanStart(limit)
  /\ \E id \in Ids, body \in bodies :
       IF body = NotJson
       THEN /\ resp' = Response("eggPUT", id, body, 500, "internal", None)
            /\ UNCHANGED inflight
       ELSE IF ~updateEggInventorySchema(body)
       THEN /\ resp' = Response("eggPUT", id, body, 400, "validation",
                                 UpdateEggIssues(body))
            /\ UNCHANGED inflight
       ELSE IF EggById(id) = {}
       THEN /\ resp' = Response("eggPUT", id, body, 404, "notfound", None)
            /\ UNCHANGED inflight
       ELSE LET existingInventory == CHOOSE g \in EggById(id) : TRUE IN
              /\ inflight' = Suspend(
                   [pc |-> IF EggDateChanged(body, existingInventory)
                           THEN "check" ELSE "write",
                    op |-> "eggPUT", id |-> id, body |-> body,
                    existing |-> Restrict(existingInventory,
                                          EggFields \cup {"total_eggs"})])
              /\ resp' = NoResp
  /\ UNCHANGED <<employees, eggs, nextEmpId, nextEggId, now, cache, mutations,
                 view>>

EggPutDateCheck ==
  \E q \in Pending :
    /\ q.pc = "check" /\ q.op = "eggPUT"
    /\ IF EggDateTakenByOther(DateParse(EggParsed(q.body).date), q.id)
       THEN /\ inflight' = Resume(q)
            /\ resp' = Response("eggPUT", q.id, q.body, 400, "conflict", None)
       ELSE /\ inflight' = Resume(q) (+) SetToBag({[q EXCEPT !.pc = "write"]})
            /\ resp' = NoResp
    /\ UNCHANGED <<employees, eggs, nextEmpId, nextEggId, now,
                   cache, mutations, view>>

EggPutWrite ==
  \E q \in Pending :
    /\ q.pc = "write" /\ q.op = "eggPUT"
    /\ inflight' = Resume(q)
    /\ IF EggById(q.id) = {}
       THEN /\ resp' = Response("eggPUT", q.id, q.body, 500, "internal", None)
            /\ UNCHANGED <<eggs, now>>
       ELSE /\ now <= MaxWrites
            /\ LET old == CHOOSE g \in EggById(q.id) : TRUE
                   new == UpdatedEgg(old, EggUpdateData(q.body, q.existing), now)
               IN /\ eggs' = (eggs \ {old}) \cup {new}
                  /\ resp' = Response("eggPUT", q.id, q.body, 200, "none", {new})
            /\ now' = now + 1
    /\ UNCHANGED <<employees, nextEmpId, nextEggId, cache, mutations, view>>

\* ------------------------------------------------------ EggInventory DELETE
EggDeleteRead(limit) ==
  /\ CanStart(limit)
  /\ \E id \in Ids :
       IF EggById(id) = {}
       THEN /\ resp' = Response("eggDELETE", id, NoBody, 404, "notfound", None)
            /\ UNCHANGED inflight
       ELSE /\ inflight' = Suspend([pc |-> "write", op |-> "eggDELETE", id |-> id])
            /\ resp' = NoResp
  /\ UNCHANGED <<employees, eggs, nextEmpId, nextEggId, now, cache, mutations,
                 view>>

EggDeleteWrite ==
  \E q \in Pending :
    /\ q.pc = "write" /\ q.op = "eggDELETE"
    /\ inflight' = Resume(q)
    /\ IF EggById(q.id) = {}
       THEN /\ resp' = Response("eggDELETE", q.id, NoBody, 500, "internal", None)
            /\ UNCHANGED eggs
       ELSE /\ eggs' = eggs \ EggById(q.id)
            /\ resp' = Response("eggDELETE", q.id, NoBody, 200, "none", None)
    /\ UNCHANGED <<employees, nextEmpId, nextEggId, now, cache, mutations, view>>

\* --------------------------------------------------- EggInventory GET ?id=
EggGet(limit) ==
  /\ CanStart(limit)
  /\ \E id \in Ids :
       IF EggById(id) = {}
       THEN resp' = Response("eggGET", id, NoBody, 404, "notfound", None)
       ELSE resp' = Response("eggGET", id, NoBody, 200, "none", EggById(id))
  /\ UNCHANGED <<employees, eggs, nextEmpId, nextEggId, now, inflight,
                 cache, mutations, view>>

\* -------------------------------------------------- requests without an id
\* searchParams.get('id') of a request that names none
NoId == 0
\* PUT and DELETE look at the id before they read the body
EmpPutNoId(limit, bodies) ==
  /\ CanStart(limit)
  /\ \E body \in bodies :
       resp' = Response("empPUT", NoId, body, 400, "idrequired", None)
  /\ UNCHANGED <<employees, eggs, nextEmpId, nextEggId, now, inflight,
                 cache, mutations, view>>
EmpDeleteNoId(limit) ==
  /\ CanStart(limit)
  /\ resp' = Response("empDELETE", NoId, NoBody, 400, "idrequired", None)
  /\ UNCHANGED <<employees, eggs, nextEmpId, nextEggId, now, inflight,
                 cache, mutations, view>>
EggPutNoId(limit, bodies) ==
  /\ CanStart(limit)
  /\ \E body \in bodies :
       resp' = Response("eggPUT", NoId, body, 400, "idrequired", None)
  /\ UNCHANGED <<employees, eggs, nextEmpId, nextEggId, now, inflight,
                 cache, mutations, view>>
EggDeleteNoId(limit) ==
  /\ CanStart(limit)
  /\ resp' = Response("eggDELETE", NoId, NoBody, 400, "idrequired", None)
  /\ UNCHANGED <<employees, eggs, nextEmpId, nextEggId, now, inflight,
                 cache, mutations, view>>

\* ---------------------------------------------------------------- GET lists
\* query strings are sequences of characters, absent parameters absent keys
DigitValue(c) ==
  CASE c = "0" -> 0 [] c = "1" -> 1 [] c = "2" -> 2 [] c = "3" -> 3
    [] c = "4" -> 4 [] c = "5" -> 5 [] c = "6" -> 6 [] c = "7" -> 7
    [] c = "8" -> 8 [] c = "9" -> 9
\* the value of a decimal numeral
RECURSIVE Decimal(_)
Decimal(s) ==
  IF Len(s) = 0 THEN 0
  ELSE Decimal(SubSeq(s, 1, Len(s) - 1)) * 10 + DigitValue(s[Len(s)])
\* the number of digits a string starts with
LeadingDigits(s) ==
  Cardinality({n \in 1..Len(s) : \A i \in 1..n : s[i] \in Digits})

\* the JavaScript numbers that are no integers, and what JSON makes of them
NotANumber == -1000
Infinity == 1000
JsonNull == -2000
IsNaN(n) == n = NotANumber
JsonNumber(n) == IF n \in {NotANumber, Infinity} THEN JsonNull ELSE n

\* parseInt: an optional sign, then the digits the string starts with; NaN
\* when there is none
ParseInt(s) ==
  LET signed == Len(s) > 0 /\ s[1] \in {"-", "+"}
      rest == IF signed THEN Tail(s) ELSE s
      n == LeadingDigits(rest)
      value == Decimal(SubSeq(rest, 1, n))
  IN IF n = 0 THEN NotANumber
     ELSE IF signed /\ s[1] = "-" THEN 0 - value ELSE value
\* searchParams.get(k) || fallback
Param(query, k, fallback) ==
  IF k \in DOMAIN query /\ query[k] # <<>> THEN query[k] ELSE fallback
QueryPage(query) == ParseInt(Param(query, "page", <<"1">>))
QueryLimit(query) == ParseInt(Param(query, "limit", <<"1", "0">>))
\* skip = (page - 1) * limit
QuerySkip(query) ==
  IF IsNaN(QueryPage(query)) \/ IsNaN(QueryLimit(query)) THEN NotANumber
  ELSE (QueryPage(query) - 1) * QueryLimit(query)

\* Math.ceil(total / limit) for a positive limit
Ceil(total, limit) ==
  IF total % limit = 0 THEN total \div limit ELSE total \div limit + 1
\* Math.ceil(total / limit) for every limit: x/0 is Infinity, 0/0 and x/NaN
\* are NaN, and the ceiling of a negative quotient rounds towards zero
TotalPages(total, limit) ==
  IF IsNaN(limit) THEN NotANumber
  ELSE IF limit = 0 THEN (IF total = 0 THEN NotANumber ELSE Infinity)
  ELSE IF limit > 0 THEN Ceil(total, limit)
  ELSE 0 - (total \div (0 - limit))

\* orderBy { key: 'desc' }: the orders the database may produce; records with
\* equal keys come in any order, and not in the same order on every query
RECURSIVE DescOrders(_, _)
DescOrders(S, key) ==
  IF S = {} THEN {<<>>}
  ELSE UNION {{<<r>> \o rows : rows \in DescOrders(S \ {r}, key)} :
                r \in {x \in S : \A y \in S : x[key] >= y[key]}}
\* skip, take
Page(rows, skip, take) ==
  [i \in 1..(IF Len(rows) - skip < take
              THEN (IF Len(rows) > skip THEN Len(rows) - skip ELSE 0)
              ELSE take) |-> rows[skip + i]]
Reverse(rows) == [i \in 1..Len(rows) |-> rows[Len(rows) + 1 - i]]
\* findMany({ skip, take }): a negative take counts from the end of the
\* order, and so does its skip
FindMany(rows, skip, take) ==
  IF take >= 0 THEN Page(rows, skip, take)
  ELSE Reverse(Page(Reverse(rows), skip, 0 - take))
\* findMany refuses a negative skip
SkipRefused(query) == ~IsNaN(QuerySkip(query)) /\ QuerySkip(query) < 0

ListResponse(op, query, rows, total) ==
  [op |-> op, id |-> 0, body |-> query, status |-> 200, error |-> "none",
   result |-> IF IsNaN(QuerySkip(query)) THEN rows
              ELSE FindMany(rows, QuerySkip(query), QueryLimit(query)),
   pagination |-> [page |-> JsonNumber(QueryPage(query)),
                   limit |-> JsonNumber(QueryLimit(query)),
                   total |-> total,
                   totalPages |->
                     JsonNumber(TotalPages(total, QueryLimit(query)))]]

\* what the list request answers for the records S its where clause selects:
\* findMany and count read one store when no other request is in flight.
\* What the client makes of skip or take NaN is not specified: it refuses
\* the query or reads the argument as not given
ListAnswers(op, query, S, key) ==
  IF SkipRefused(query)
  THEN {Response(op, 0, query, 500, "internal", None)}
  ELSE {ListResponse(op, query, rows, Cardinality(S)) :
          rows \in DescOrders(S, key)}
       \cup (IF IsNaN(QuerySkip(query))
             THEN {Response(op, 0, query, 500, "internal", None)} ELSE {})

\* ILIKE folds case: the lower-case form of a character
UpperCase ==
  <<"A", "B", "C", "D", "E", "F", "G", "H", "I", "J", "K", "L", "M",
    "N", "O", "P", "Q", "R", "S", "T", "U", "V", "W", "X", "Y", "Z">>
LowerCase ==
  <<"a", "b", "c", "d", "e", "f", "g", "h", "i", "j", "k", "l", "m",
    "n", "o", "p", "q", "r", "s", "t", "u", "v", "w", "x", "y", "z">>
Lower(c) ==
  IF \E i \in DOMAIN UpperCase : UpperCase[i] = c
  THEN LowerCase[CHOOSE i \in DOMAIN UpperCase : UpperCase[i] = c]
  ELSE c
ToLower(s) == [i \in 1..Len(s) |-> Lower(s[i])]
\* { contains: t }
Contains(s, t) ==
  \E i \in 1..(Len(s) - Len(t) + 1) : SubSeq(s, i, i + Len(t) - 1) = t
\* { contains: t, mode: 'insensitive' }
ContainsInsensitive(s, t) == Contains(ToLower(s), ToLower(t))

\* a where clause that compares the name as it is written
EmployeeWhereCaseSensitive(query) ==
  LET search == Param(query, "search", <<>>) IN
    IF search = <<>> THEN employees
    ELSE {e \in employees :
            \/ Contains(e.fullName, search)
            \/ Contains(e.phoneNumber, search)
            \/ Contains(e.aadharNumber, search)}
\* the employees the where clause of the list selects
EmployeeWhere(query) ==
  LET search == Param(query, "search", <<>>) IN
    IF search = <<>> THEN employees
    ELSE {e \in employees :
            \/ ContainsInsensitive(e.fullName, search)
            \/ Contains(e.phoneNumber, search)
            \/ Contains(e.aadharNumber, search)}

EmpList(limit, queries) ==
  /\ CanStart(limit)
  /\ \E query \in queries :
       resp' \in ListAnswers("empLIST", query, EmployeeWhere(query),
                             "createdAt")
  /\ UNCHANGED <<employees, eggs, nextEmpId, nextEggId, now, inflight,
                 cache, mutations, view>>

\* searchParams.get('startDate') is truthy
HasDate(query, k) == k \in DOMAIN query /\ query[k] # <<>>
\* new Date(s) of a string that is no date is an Invalid Date, which the
\* client refuses as a filter value
EggWhereRefused(query) ==
  \E k \in {"startDate", "endDate"} :
    HasDate(query, k) /\ DateParse(query[k]) = NaN
\* a filter that takes the end date for the start date as well
EggWhereEndOnly(query) ==
  {g \in eggs :
     /\ HasDate(query, "endDate") => g.date >= DateParse(query.endDate)
     /\ HasDate(query, "endDate") => g.date <= DateParse(query.endDate)}
\* where.date = { gte: new Date(startDate), lte: new Date(endDate) }
EggWhere(query) ==
  {g \in eggs :
     /\ HasDate(query, "startDate") => g.date >= DateParse(query.startDate)
     /\ HasDate(query, "endDate") => g.date <= DateParse(query.endDate)}

EggList(limit, queries) ==
  /\ CanStart(limit)
  /\ \E query \in queries :
       IF EggWhereRefused(query)
       THEN resp' = Response("eggLIST", 0, query, 500, "internal", None)
       ELSE resp' \in ListAnswers("eggLIST", query, EggWhere(query), "date")
  /\ UNCHANGED <<employees, eggs, nextEmpId, nextEggId, now, inflight,
                 cache, mutations, view>>

NoQuery == [k \in {} |-> <<>>]
ListQueries ==
  {NoQuery}
  \cup {[page |-> <<p>>, limit |-> <<l>>] : p \in {"1", "2", "3"},
                                           l \in {"1", "2"}}

\* the requests of the list checks: records of three dates, one of them
\* movable onto another's day
Day2 == DateOnly(2)
EggListPostBodies ==
  { BaseEgg,
    [BaseEgg EXCEPT !.date = Day1At10, !.crack_eggs = Num(1, 0)],
    [BaseEgg EXCEPT !.date = Day2, !.crack_eggs = Num(2, 0)] }
EggListPutBodies == { [date |-> Day1], [crack_eggs |-> Num(4, 0)] }
\* date filters: each bound empty, a time of day, or no date at all
DateTexts == {<<>>, Day1At10, NotADate}
EggFilterQueries ==
  {[page |-> <<p>>, limit |-> <<"1">>, startDate |-> sd, endDate |-> ed] :
     p \in {"1", "2"}, sd \in DateTexts, ed \in DateTexts}
\* page and limit as a caller may write them: zero, negative, not a number,
\* one
PagingTexts == {<<"0">>, <<"-", "1">>, <<"x">>, <<"1">>}
PagingQueries ==
  {[page |-> p, limit |-> l] : p \in PagingTexts, l \in PagingTexts}
EggListQueries == {NoQuery} \cup EggFilterQueries

\* ------------------------------------------------------ persistence failures
\* any awaited database call may reject (connection lost, timeout); every
\* handler runs inside try, and its catch answers 500
FaultQueries == { NoQuery, [page |-> <<"0">>, limit |-> <<"1">>] }
EmployeeFaultPostBodies ==
  { BaseEmployee, [BaseEmployee EXCEPT !.age = Num(17, 0)], NotJson }
EmployeeFaultPutBodies == { [aadharNumber |-> Aadhar2], NotJson }
EggFaultPostBodies == { BaseEgg, Without(BaseEgg, "date"), NotJson }
EggFaultPutBodies == { [date |-> Day1At10], NotJson }
\* the requests that get as far as their first database call
FirstCalls ==
  {[op |-> "empPOST", id |-> 0, body |-> BaseEmployee],
   [op |-> "eggPOST", id |-> 0, body |-> BaseEgg],
   [op |-> "empPUT", id |-> 1, body |-> [aadharNumber |-> Aadhar2]],
   [op |-> "eggPUT", id |-> 1, body |-> [date |-> Day1At10]]}
  \cup {[op |-> op, id |-> 1, body |-> NoBody] :
          op \in {"empDELETE", "eggDELETE", "empGET", "eggGET"}}
  \cup {[op |-> op, id |-> 0, body |-> NoQuery] : op \in {"empLIST", "eggLIST"}}

\* a catch that answers with the message of the error it caught
FirstCallFailsLeaking(limit) ==
  /\ CanStart(limit)
  /\ \E r \in FirstCalls :
       resp' = Response(r.op, r.id, r.body, 500, "detail", None)
  /\ UNCHANGED <<employees, eggs, nextEmpId, nextEggId, now, inflight,
                 cache, mutations, view>>
\* the first database call of a request rejects
FirstCallFails(limit) ==
  /\ CanStart(limit)
  /\ \E r \in FirstCalls :
       resp' = Response(r.op, r.id, r.body, 500, "internal", None)
  /\ UNCHANGED <<employees, eggs, nextEmpId, nextEggId, now, inflight,
                 cache, mutations, view>>

\* a later database call of a request in flight rejects
LaterCallFails ==
  \E q \in Pending :
    /\ inflight' = Resume(q)
    /\ resp' = Response(q.op, q.id,
                        IF "body" \in DOMAIN q THEN q.body ELSE NoBody,
                        500, "internal", None)
    /\ UNCHANGED <<employees, eggs, nextEmpId, nextEggId, now,
                   cache, mutations, view>>

\* the requests of the PUT checks: a valid body, one that fails the schema,
\* one that takes another record's key
EmployeeOrderPostBodies ==
  { BaseEmployee, [BaseEmployee EXCEPT !.aadharNumber = Aadhar2] }
EmployeeOrderPutBodies ==
  { [fullName |-> Name2], [age |-> Num(17, 0)], [aadharNumber |-> Aadhar2] }
EggOrderPostBodies == { BaseEgg, [BaseEgg EXCEPT !.date = Day1At10] }
EggOrderPutBodies ==
  { [crack_eggs |-> Num(4, 0)], [crack_eggs |-> 0 - Num(1, 0)],
    [date |-> Day1], [date |-> Day2] }

\* employees to search among, and the search texts: part of a name in the
\* other case, part of a name, digits of an aadhar number, digits of a phone
\* number, a text no record holds, the empty text
EmployeeListPostBodies ==
  { BaseEmployee,
    [BaseEmployee EXCEPT !.fullName = Name2, !.aadharNumber = Aadhar2] }
EmployeeListPutBodies == { [fullName |-> Name2], [aadharNumber |-> Aadhar2] }
SearchTexts ==
  {<<"S", "H">>, <<"a">>, <<"2", "2">>, <<"9", "9">>, <<"z">>, <<>>}
EmployeeListQueries ==
  {NoQuery}
  \cup {[page |-> <<p>>, limit |-> <<"1">>, search |-> t] :
          p \in {"1", "2"}, t \in SearchTexts}

\* -------------------------------------------------------------- query cache
\* the list queries the list views keep: page 1 and page 2 with limit 10
ClientQueries ==
  {[page |-> <<p>>, limit |-> <<"1", "0">>] : p \in {"1", "2"}}

NoEntry == [state |-> "none"]
\* setQueryData, or a query function that resolved
Fresh(data) == [state |-> "fresh", data |-> data]
\* invalidateQueries marks the entries it matches; it creates none
Invalidate(entry) ==
  IF entry.state = "none" THEN entry ELSE [entry EXCEPT !.state = "stale"]
InvalidateAll(entries) == [k \in DOMAIN entries |-> Invalidate(entries[k])]

EmptyCache ==
  [employeeLists |-> [q \in ClientQueries |-> NoEntry],
   employeeDetail |-> [id \in Ids |-> NoEntry],
   eggInventories |-> [q \in ClientQueries |-> NoEntry],
   eggInventory |-> [id \in Ids |-> NoEntry]]

\* onSuccess of the six mutation hooks
useCreateEmployee(c, employee) ==
  [c EXCEPT !.employeeLists = InvalidateAll(@),
            !.employeeDetail[employee.id] = Fresh(employee)]
useUpdateEmployee(c, employee, id) ==
  [c EXCEPT !.employeeDetail[id] = Fresh(employee),
            !.employeeLists = InvalidateAll(@)]
useDeleteEmployee(c, employeeId) ==
  [c EXCEPT !.employeeDetail[employeeId] = NoEntry,
            !.employeeLists = InvalidateAll(@)]
useCreateEgg(c) == [c EXCEPT !.eggInventories = InvalidateAll(@)]
useUpdateEgg(c, id) ==
  [c EXCEPT !.eggInventories = InvalidateAll(@),
            !.eggInventory[id] = Invalidate(@)]
useDeleteEgg(c) == [c EXCEPT !.eggInventories = InvalidateAll(@)]

\* mutation.isPending of a hook
IsPending(hook) == \E m \in BagToSet(mutations) : m.hook = hook
Mutate(m) == mutations' = mutations (+) SetToBag({m})
CanMutate == BagCardinality(mutations) < NumClients

\* ------------------------------------------------------------------ controls
\* what the forms submit
EmployeeFormCreates == { BaseEmployee }
EmployeeFormUpdates ==
  { [BaseEmployee EXCEPT !.fullName = Name2, !.aadharNumber = Aadhar2] }
EggFormCreates == { BaseEgg }
EggFormUpdates ==
  { [BaseEgg EXCEPT !.date = DateOnly(2), !.crack_eggs = Num(4, 0)] }

\* the submit button that is disabled only while a create is pending
EmployeeFormIsLoadingCreateOnly == IsPending("useCreateEmployee")
EmployeeFormIsLoading ==
  IsPending("useCreateEmployee") \/ IsPending("useUpdateEmployee")
EggFormDisabled == IsPending("useCreateEgg") \/ IsPending("useUpdateEgg")

SubmitEmployeeForm ==
  /\ ~EmployeeFormIsLoading
  /\ CanMutate
  /\ \/ \E data \in EmployeeFormCreates :
          Mutate([control |-> "EmployeeForm", hook |-> "useCreateEmployee",
                  id |-> 0, body |-> data])
     \/ \E id \in Ids, data \in EmployeeFormUpdates :
          Mutate([control |-> "EmployeeForm", hook |-> "useUpdateEmployee",
                  id |-> id, body |-> data])
  /\ UNCHANGED <<employees, eggs, nextEmpId, nextEggId, now, inflight, resp,
                 cache, view>>

SubmitEggForm ==
  /\ ~EggFormDisabled
  /\ CanMutate
  /\ \/ \E data \in EggFormCreates :
          Mutate([control |-> "EggInventoryForm", hook |-> "useCreateEgg",
                  id |-> 0, body |-> data])
     \/ \E id \in Ids, data \in EggFormUpdates :
          Mutate([control |-> "EggInventoryForm", hook |-> "useUpdateEgg",
                  id |-> id, body |-> data])
  /\ UNCHANGED <<employees, eggs, nextEmpId, nextEggId, now, inflight, resp,
                 cache, view>>

DeleteEmployeeClick ==
  /\ ~IsPending("useDeleteEmployee")
  /\ CanMutate
  /\ \E id \in Ids :
       Mutate([control |-> "EmployeeList", hook |-> "useDeleteEmployee",
               id |-> id])
  /\ UNCHANGED <<employees, eggs, nextEmpId, nextEggId, now, inflight, resp,
                 cache, view>>

DeleteEggClick ==
  /\ ~IsPending("useDeleteEgg")
  /\ CanMutate
  /\ \E id \in Ids :
       Mutate([control |-> "EggInventoryList", hook |-> "useDeleteEgg",
               id |-> id])
  /\ UNCHANGED <<employees, eggs, nextEmpId, nextEggId, now, inflight, resp,
                 cache, view>>

\* ------------------------------------------------------ requests of the page
\* the request in hand is the one for this id
RequestFor(id) ==
  /\ resp' # NoResp => resp'.id = id
  /\ \A q \in BagToSet(inflight') : q.id = id

\* fetch of a mutation: the server takes up one request at a time, after
\* the response before it was delivered
EmployeeMutationFetch ==
  /\ resp = NoResp
  /\ \E m \in BagToSet(mutations) :
       \/ m.hook = "useCreateEmployee" /\ EmpPostCheck(1, {m.body})
       \/ /\ m.hook = "useUpdateEmployee" /\ EmpPutRead(1, {m.body})
          /\ RequestFor(m.id)
       \/ /\ m.hook = "useDeleteEmployee" /\ EmpDeleteRead(1)
          /\ RequestFor(m.id)

EggMutationFetch ==
  /\ resp = NoResp
  /\ \E m \in BagToSet(mutations) :
       \/ m.hook = "useCreateEgg" /\ EggPostCheck(1, {m.body})
       \/ /\ m.hook = "useUpdateEgg" /\ EggPutRead(1, {m.body})
          /\ RequestFor(m.id)
       \/ /\ m.hook = "useDeleteEgg" /\ EggDeleteRead(1)
          /\ RequestFor(m.id)

\* queryFn of useEmployees and useEmployee
EmployeeQueryFetch ==
  /\ resp = NoResp
  /\ (EmpList(1, ClientQueries) \/ EmpGet(1))

\* queryFn of useEggs and useEgg
EggQueryFetch ==
  /\ resp = NoResp
  /\ (EggList(1, ClientQueries) \/ EggGet(1))

HookOf(op) ==
  CASE op = "empPOST" -> "useCreateEmployee"
    [] op = "empPUT" -> "useUpdateEmployee"
    [] op = "empDELETE" -> "useDeleteEmployee"
    [] op = "eggPOST" -> "useCreateEgg"
    [] op = "eggPUT" -> "useUpdateEgg"
    [] op = "eggDELETE" -> "useDeleteEgg"
    [] OTHER -> "useQuery"

\* response.ok
Ok(r) == r.status \in {200, 201}

\* the response reaches the mutation that sent the request: onSuccess runs
\* when response.ok, onError (a toast) otherwise, and the mutation settles
MutationSettles ==
  /\ resp # NoResp /\ HookOf(resp.op) # "useQuery"
  /\ \E m \in BagToSet(mutations) :
       /\ m.hook = HookOf(resp.op)
       /\ resp.op \notin {"empDELETE", "eggDELETE"} => m.body = resp.body
       /\ resp.op \notin {"empPOST", "eggPOST"} => m.id = resp.id
       /\ mutations' = mutations (-) SetToBag({m})
       /\ cache' =
            IF ~Ok(resp) THEN cache
            ELSE CASE resp.op = "empPOST" ->
                        useCreateEmployee(cache, CHOOSE e \in resp.result : TRUE)
                   [] resp.op = "empPUT" ->
                        useUpdateEmployee(cache, CHOOSE e \in resp.result : TRUE,
                                          m.id)
                   [] resp.op = "empDELETE" -> useDeleteEmployee(cache, m.id)
                   [] resp.op = "eggPOST" -> useCreateEgg(cache)
                   [] resp.op = "eggPUT" -> useUpdateEgg(cache, m.id)
                   [] resp.op = "eggDELETE" -> useDeleteEgg(cache)
  /\ resp' = NoResp
  /\ UNCHANGED <<employees, eggs, nextEmpId, nextEggId, now, inflight, view>>

\* the response reaches the query: its data is cached when response.ok, and
\* the entry keeps what it had when the query function throws
QuerySettles ==
  /\ resp # NoResp /\ HookOf(resp.op) = "useQuery"
  /\ cache' =
       IF ~Ok(resp) THEN cache
       ELSE CASE resp.op = "empLIST" ->
                   [cache EXCEPT !.employeeLists[resp.body] =
                      Fresh([employees |-> resp.result,
                             pagination |-> resp.pagination])]
              [] resp.op = "empGET" ->
                   [cache EXCEPT !.employeeDetail[resp.id] =
                      Fresh(CHOOSE e \in resp.result : TRUE)]
              [] resp.op = "eggLIST" ->
                   [cache EXCEPT !.eggInventories[resp.body] =
                      Fresh([inventories |-> resp.result,
                             pagination |-> resp.pagination])]
              [] resp.op = "eggGET" ->
                   [cache EXCEPT !.eggInventory[resp.id] =
                      Fresh(CHOOSE g \in resp.result : TRUE)]
  /\ resp' = NoResp
  /\ UNCHANGED <<employees, eggs, nextEmpId, nextEggId, now, inflight,
                 mutations, view>>

\* ---------------------------------------------------------------- bulk delete
\* onSuccess of useDeleteEmployees
useDeleteEmployees(c, employeeIds) ==
  [c EXCEPT !.employeeDetail =
              [id \in Ids |-> IF id \in employeeIds THEN NoEntry ELSE @[id]],
            !.employeeLists = InvalidateAll(@)]

\* a bulk mutation: ids are the ids it was called with, answered those whose
\* fetch has returned, deleted those answered 200; rejected once Promise.all
\* has rejected, which settles the mutation while its other fetches go on
IsBulk(m) == m.hook = "useDeleteEmployees"
BulkPending == \E m \in BagToSet(mutations) : IsBulk(m) /\ ~m.rejected

\* deleteEmployees.mutate(employeeIds)
DeleteEmployeesCall ==
  /\ CanMutate
  /\ ~\E m \in BagToSet(mutations) : IsBulk(m)
  /\ \E employeeIds \in SUBSET Ids \ {{}} :
       Mutate([control |-> "none", hook |-> "useDeleteEmployees",
               ids |-> employeeIds, answered |-> {}, deleted |-> {},
               rejected |-> FALSE])
  /\ UNCHANGED <<employees, eggs, nextEmpId, nextEggId, now, inflight, resp,
                 cache, view>>

\* employeeIds.map(id => employeeApi.deleteEmployee(id)): one fetch per id;
\* the server takes them up one at a time
BulkDeleteFetch ==
  /\ resp = NoResp
  /\ \E m \in BagToSet(mutations) :
       /\ IsBulk(m)
       /\ \E id \in m.ids \ m.answered :
            EmpDeleteRead(1) /\ RequestFor(id)

\* a fetch of the bulk mutation returns. deleteEmployee throws unless
\* response.ok, and the first throw rejects Promise.all: onError runs and
\* the cache stays as it is. When every fetch has returned ok, onSuccess runs
BulkDeleteReturns ==
  /\ resp # NoResp /\ resp.op = "empDELETE"
  /\ \E m \in BagToSet(mutations) :
       /\ IsBulk(m) /\ resp.id \in m.ids \ m.answered
       /\ LET answered == m.answered \cup {resp.id}
              deleted == IF Ok(resp) THEN m.deleted \cup {resp.id}
                         ELSE m.deleted
              rejected == m.rejected \/ ~Ok(resp)
          IN /\ mutations' =
                  IF answered = m.ids THEN mutations (-) SetToBag({m})
                  ELSE (mutations (-) SetToBag({m}))
                       (+) SetToBag({[m EXCEPT !.answered = answered,
                                               !.deleted = deleted,
                                               !.rejected = rejected]})
             /\ cache' = IF answered = m.ids /\ ~rejected
                         THEN useDeleteEmployees(cache, m.ids)
                         ELSE cache
  /\ resp' = NoResp
  /\ UNCHANGED <<employees, eggs, nextEmpId, nextEggId, now, inflight, view>>

\* ------------------------------------------------------- employee list page
\* what is typed into the search box
ViewSearches == {<<>>, <<"z">>}
\* useState(1) and useState('')
FirstView == [page |-> 1, search |-> <<>>]
\* page.toString() of a page of one digit
PageToString(n) == CHOOSE s \in {<<d>> : d \in Digits} : Decimal(s) = n
\* the query getEmployees sends for { page, limit, search }, limit being 10:
\* a parameter is appended when its value is truthy
EmployeesQuery(v) ==
  IF v.search = <<>>
  THEN [page |-> PageToString(v.page), limit |-> <<"1", "0">>]
  ELSE [page |-> PageToString(v.page), limit |-> <<"1", "0">>,
        search |-> v.search]
ViewQueries ==
  {EmployeesQuery([page |-> p, search |-> t]) :
     p \in 1..MaxPage, t \in ViewSearches}
ViewCache ==
  [EmptyCache EXCEPT !.employeeLists = [q \in ViewQueries |-> NoEntry]]

\* what useEmployees({ page, limit, search }) returns to the page
ViewEntry == cache.employeeLists[EmployeesQuery(view)]
ViewLoaded == ViewEntry.state # "none"
ViewData == ViewEntry.data
IsFetching ==
  resp # NoResp /\ resp.op = "empLIST" /\ resp.body = EmployeesQuery(view)

\* the page changes its state and nothing else
SetView(v) ==
  /\ view' = v
  /\ UNCHANGED <<employees, eggs, nextEmpId, nextEggId, now, inflight, resp,
                 cache, mutations>>

\* the Previous button
PreviousClick ==
  /\ ViewLoaded
  /\ ~(view.page = 1 \/ IsFetching)
  /\ SetView([view EXCEPT !.page = @ - 1])

\* the Next button
NextClick ==
  /\ ViewLoaded
  /\ ~(view.page = ViewData.pagination.totalPages \/ IsFetching)
  /\ view.page < MaxPage
  /\ SetView([view EXCEPT !.page = @ + 1])

\* the page-number buttons: those of the pages 1..totalPages that are at
\* most two away from the current page
PageNumberClick ==
  /\ ViewLoaded
  /\ ~IsFetching
  /\ \E pageNum \in 1..MaxPage :
       /\ pageNum <= ViewData.pagination.totalPages
       /\ pageNum >= view.page - 2 /\ pageNum <= view.page + 2
       /\ pageNum # view.page
       /\ SetView([view EXCEPT !.page = pageNum])

\* handleSearch: typing into the search box
HandleSearch ==
  \E value \in ViewSearches \ {view.search} :
    SetView([page |-> 1, search |-> value])

\* handleDelete of a row the page shows
HandleDelete ==
  /\ ViewLoaded
  /\ ~IsPending("useDeleteEmployee")
  /\ CanMutate
  /\ \E i \in DOMAIN ViewData.employees :
       /\ ViewData.employees[i].id \in Ids
       /\ Mutate([control |-> "EmployeeList", hook |-> "useDeleteEmployee",
                  id |-> ViewData.employees[i].id])
  /\ UNCHANGED <<employees, eggs, nextEmpId, nextEggId, now, inflight, resp,
                 cache, view>>

\* the query of the page is fetched when it has no data or was invalidated
ViewFetch ==
  /\ resp = NoResp
  /\ ViewEntry.state # "fresh"
  /\ EmpList(1, {EmployeesQuery(view)})

\* ------------------------------------------------------------ specification
Init ==
  /\ employees = {}
  /\ eggs = {}
  /\ nextEmpId = 1
  /\ nextEggId = 1
  /\ now = 1
  /\ inflight = EmptyBag
  /\ resp = NoResp
  /\ cache = EmptyCache
  /\ mutations = EmptyBag
  /\ view = FirstView

\* limit is the number of requests the server may have in flight
EmpStep(limit, postBodies, putBodies) ==
  \/ EmpPostCheck(limit, postBodies) \/ EmpPostWrite
  \/ EmpPutRead(limit, putBodies) \/ EmpPutAadharCheck \/ EmpPutWrite
  \/ EmpDeleteRead(limit) \/ EmpDeleteWrite
  \/ EmpGet(limit)

\* concurrent requests draw from the bodies the races need, requests served
\* one at a time from all of them
EmpNext == EmpStep(NumClients, EmployeeRacePostBodies, EmployeeRacePutBodies)
EmpSeqNext ==
  \/ EmpStep(1, EmployeePostBodies, EmployeePutBodies)
  \/ EmpList(1, ListQueries)

EggStep(limit, postBodies, putBodies) ==
  \/ EggPostCheck(limit, postBodies) \/ EggPostWrite
  \/ EggPutRead(limit, putBodies) \/ EggPutDateCheck \/ EggPutWrite
  \/ EggDeleteRead(limit) \/ EggDeleteWrite
  \/ EggGet(limit)

EggNext == EggStep(NumClients, EggRacePostBodies, EggRacePutBodies)
EggSeqNext ==
  \/ EggStep(1, EggPostBodies, EggPutBodies)
  \/ EggList(1, ListQueries)

Next == EmpNext \/ EggNext

\* requests served concurrently, and one at a time
EmpSpec == Init /\ [][EmpNext]_vars
EmpSeqSpec == Init /\ [][EmpSeqNext]_vars
EggSpec == Init /\ [][EggNext]_vars
EggSeqSpec == Init /\ [][EggSeqNext]_vars
Spec == Init /\ [][Next]_vars

\* both entities behind one server that serves one request at a time
ApiSeqNext ==
  \/ EmpStep(1, EmployeeApiPostBodies, EmployeeApiPutBodies)
  \/ EggStep(1, EggApiPostBodies, EggApiPutBodies)
ApiSeqSpec == Init /\ [][ApiSeqNext]_vars

\* the awaited call of a request in flight settles: it resolves and the
\* handler goes on, or it rejects
AwaitSettles ==
  \/ EmpPostWrite \/ EmpPutAadharCheck \/ EmpPutWrite \/ EmpDeleteWrite
  \/ EggPostWrite \/ EggPutDateCheck \/ EggPutWrite \/ EggDeleteWrite
  \/ LaterCallFails
\* every request of both endpoints, served one at a time, with database
\* calls that may fail; an awaited call does not stay unsettled for ever
FaultNext ==
  \/ EmpStep(1, EmployeeFaultPostBodies, EmployeeFaultPutBodies)
  \/ EggStep(1, EggFaultPostBodies, EggFaultPutBodies)
  \/ EmpPutNoId(1, {NotJson}) \/ EmpDeleteNoId(1)
  \/ EggPutNoId(1, {NotJson}) \/ EggDeleteNoId(1)
  \/ EmpList(1, FaultQueries) \/ EggList(1, FaultQueries)
  \/ FirstCallFails(1) \/ LaterCallFails
FaultSpec == Init /\ [][FaultNext]_vars /\ WF_vars(AwaitSettles)

\* updates and deletes with and without an id, served one at a time
OrderNext ==
  \/ EmpStep(1, EmployeeOrderPostBodies, EmployeeOrderPutBodies)
  \/ EggStep(1, EggOrderPostBodies, EggOrderPutBodies)
  \/ EmpPutNoId(1, EmployeeOrderPutBodies) \/ EmpDeleteNoId(1)
  \/ EggPutNoId(1, EggOrderPutBodies) \/ EggDeleteNoId(1)
OrderSpec == Init /\ [][OrderNext]_vars

\* concurrent updates of one employee
EmpMergeNext ==
  EmpStep(NumClients, EmployeeMergePostBodies, EmployeeMergePutBodies)
EmpMergeSpec == Init /\ [][EmpMergeNext]_vars

\* the employee form, the employee queries and a caller of the bulk delete
BulkNext ==
  \/ SubmitEmployeeForm \/ DeleteEmployeesCall
  \/ EmployeeMutationFetch \/ BulkDeleteFetch \/ EmployeeQueryFetch
  \/ EmpPostWrite \/ EmpPutAadharCheck \/ EmpPutWrite \/ EmpDeleteWrite
  \/ MutationSettles \/ BulkDeleteReturns \/ QuerySettles
BulkSpec == Init /\ [][BulkNext]_vars

\* the employee list page over the employees stored before it is opened,
\* one more than a page holds, on a cache that holds its queries
ViewAadhar(id) == Rep("0", 12 - id) \o Rep("1", id)
ViewEmployees ==
  { NewEmployee(id, EmployeeParsed([BaseEmployee EXCEPT
                                      !.aadharNumber = ViewAadhar(id)]), id) :
      id \in 1..ViewRecords }
ViewInit ==
  /\ employees = ViewEmployees
  /\ eggs = {}
  /\ nextEmpId = ViewRecords + 1
  /\ nextEggId = 1
  /\ now = ViewRecords + 1
  /\ inflight = EmptyBag
  /\ resp = NoResp
  /\ cache = ViewCache
  /\ mutations = EmptyBag
  /\ view = FirstView
ViewNext ==
  \/ HandleDelete \/ HandleSearch
  \/ PageNumberClick \/ PreviousClick \/ NextClick
  \/ EmployeeMutationFetch \/ ViewFetch \/ EmpDeleteWrite
  \/ MutationSettles \/ QuerySettles
ViewSpec == ViewInit /\ [][ViewNext]_vars

\* both lists asked for pages as any caller may write them
PagingNext ==
  \/ ApiSeqNext
  \/ EmpList(1, PagingQueries)
  \/ EggList(1, PagingQueries)
PagingSpec == Init /\ [][PagingNext]_vars

\* the employee list with its search, requests served one at a time
EmpListNext ==
  \/ EmpStep(1, EmployeeListPostBodies, EmployeeListPutBodies)
  \/ EmpList(1, EmployeeListQueries)
EmpListSpec == Init /\ [][EmpListNext]_vars

\* the egg inventory list with its filters, requests served one at a time
EggListNext ==
  \/ EggStep(1, EggListPostBodies, EggListPutBodies)
  \/ EggList(1, EggListQueries)
EggListSpec == Init /\ [][EggListNext]_vars

\* the employee pages of one browser and the server behind them
EmpClientNext ==
  \/ SubmitEmployeeForm \/ DeleteEmployeeClick
  \/ EmployeeMutationFetch \/ EmployeeQueryFetch
  \/ EmpPostWrite \/ EmpPutAadharCheck \/ EmpPutWrite \/ EmpDeleteWrite
  \/ MutationSettles \/ QuerySettles
EmpClientSpec == Init /\ [][EmpClientNext]_vars

\* the egg inventory page
EggClientNext ==
  \/ SubmitEggForm \/ DeleteEggClick
  \/ EggMutationFetch \/ EggQueryFetch
  \/ EggPostWrite \/ EggPutDateCheck \/ EggPutWrite \/ EggDeleteWrite
  \/ MutationSettles \/ QuerySettles
EggClientSpec == Init /\ [][EggClientNext]_vars

\* the controls of both, with no query mounted
ControlsNext ==
  \/ SubmitEmployeeForm \/ DeleteEmployeeClick
  \/ SubmitEggForm \/ DeleteEggClick
  \/ EmployeeMutationFetch \/ EggMutationFetch
  \/ EmpPostWrite \/ EmpPutAadharCheck \/ EmpPutWrite \/ EmpDeleteWrite
  \/ EggPostWrite \/ EggPutDateCheck \/ EggPutWrite \/ EggDeleteWrite
  \/ MutationSettles
ControlsSpec == Init /\ [][ControlsNext]_vars

\* ------------------------------------------------------------------ claims
EggTotal(g) == g.crack_eggs + g.jumbo_eggs + g.normal_eggs
\* the step is the write of pending request q, answered by resp'
Answers(q) == inflight' = Resume(q) /\ resp' # NoResp /\ resp'.op = q.op

\* C1: under every interleaving of concurrent Employee create, update and
\* delete requests, no two stored employees have the same aadharNumber.
C1_UniqueAadhar ==
  \A e1 \in employees : \A e2 \in employees :
    e1.aadharNumber = e2.aadharNumber => e1 = e2
\* a create that passed its pre-check was refused by the index at write time
C1_Witness ==
  /\ resp.op = "empPOST" /\ resp.status = 500
  /\ EmployeeStorable(EmployeeParsed(resp.body))
  /\ \E e \in employees : e.aadharNumber = resp.body.aadharNumber

\* C2: under every interleaving of concurrent EggInventory create and update
\* requests, every stored record has total_eggs = crack + jumbo + normal.
C2_TotalIsSum == \A g \in eggs : g.total_eggs = EggTotal(g)

\* C3: the store puts no constraint on date: a create that passed its date
\* pre-check always inserts its record and answers 201, also when a record
\* with that date was stored meanwhile, so two concurrent creates with the
\* same date can both succeed (the witness).
C3_CreateWriteNeverRefused ==
  [][\A q \in Pending :
       (q.op = "eggPOST" /\ Answers(q)) =>
         /\ resp'.status = 201
         /\ resp'.result \subseteq eggs'
         /\ Cardinality(eggs') = Cardinality(eggs) + 1]_vars
\* both creates answered 201 and left two records with the identical date
C3_Witness ==
  /\ resp.op = "eggPOST" /\ resp.status = 201
  /\ \E g1 \in eggs : \E g2 \in resp.result :
       /\ g1.id # g2.id /\ g1.date = g2.date
       /\ g1.updated_at = g1.created_at

\* C4: with requests served one at a time, no two stored EggInventory
\* records ever have the identical date, whatever date strings are supplied.
C4_UniqueDate ==
  \A g1 \in eggs : \A g2 \in eggs : g1.date = g2.date => g1.id = g2.id

\* C5: a valid Employee create whose aadharNumber is already stored answers
\* 400 with the conflict error and leaves the stored records as they were.
C5_DuplicateCreateConflicts ==
  [][(/\ resp'.op = "empPOST"
      /\ employeeSchema(resp'.body)
      /\ \E e \in employees : e.aadharNumber = resp'.body.aadharNumber)
     => /\ resp'.status = 400 /\ resp'.error = "conflict"
        /\ employees' = employees]_vars
\* the second of two creates with one aadharNumber was answered Conflict
C5_Witness ==
  /\ resp.op = "empPOST" /\ resp.status = 400 /\ resp.error = "conflict"
  /\ \E e \in employees : e.aadharNumber = resp.body.aadharNumber

\* C6: a create that passed its pre-check and is refused by the unique index
\* at write time (the loser of two concurrent creates with one aadharNumber)
\* answers 400 with the conflict error.
C6_IndexRefusalIsConflict ==
  [][\A q \in Pending :
       (/\ q.op = "empPOST" /\ Answers(q)
        /\ EmployeeStorable(q.data)
        /\ \E e \in employees : e.aadharNumber = q.data.aadharNumber)
       => resp'.status = 400 /\ resp'.error = "conflict"]_vars

\* C7: an Employee update supplying the aadharNumber of a different stored
\* employee answers 400 Conflict and changes nothing; one supplying the
\* record's own aadharNumber answers 200.
C7_UpdateAadhar ==
  [][(/\ resp'.op = "empPUT"
      /\ updateEmployeeSchema(resp'.body)
      /\ "aadharNumber" \in DOMAIN resp'.body
      /\ \E e \in employees : e.id = resp'.id)
     => LET a == resp'.body.aadharNumber
            own == CHOOSE e \in employees : e.id = resp'.id
        IN /\ (\E e \in employees : e.id # own.id /\ e.aadharNumber = a)
                => /\ resp'.status = 400 /\ resp'.error = "conflict"
                   /\ employees' = employees
           /\ own.aadharNumber = a
                => /\ resp'.status = 200
                   /\ \A e \in resp'.result : e.aadharNumber = a]_vars
\* an update with the record's own number succeeded beside another employee
C7_Witness ==
  /\ resp.op = "empPUT" /\ resp.status = 200
  /\ "aadharNumber" \in DOMAIN resp.body
  /\ Cardinality(employees) = 2
  /\ \E e \in employees : e.id = resp.id /\ e.updatedAt > e.createdAt

\* C8: an EggInventory update served alone stores the supplied counts, keeps
\* the counts not supplied, and stores total_eggs = the sum of the three
\* resulting counts; supplying no count leaves counts and total unchanged.
C8_MergedTotal ==
  [][(resp'.op = "eggPUT" /\ resp'.status = 200)
     => LET old == CHOOSE g \in eggs : g.id = resp'.id
            new == CHOOSE g \in eggs' : g.id = resp'.id
            supplied == EggCountFields \cap DOMAIN resp'.body
        IN /\ \A k \in supplied : new[k] * 1000 = resp'.body[k]
           /\ \A k \in EggCountFields \ supplied : new[k] = old[k]
           /\ supplied # {} => new.total_eggs = EggTotal(new)
           /\ supplied = {} => new.total_eggs = old.total_eggs]_vars
\* {jumbo_eggs: 3} on the record created as 5, 2, 93 gave total_eggs 101
C8_Witness ==
  /\ resp.op = "eggPUT" /\ resp.status = 200
  /\ EggCountFields \cap DOMAIN resp.body = {"jumbo_eggs"}
  /\ \E g \in eggs : /\ g.id = resp.id /\ g.total_eggs = 101
                      /\ g.crack_eggs = 5 /\ g.jumbo_eggs = 3

\* C9: a total_eggs value in the request body has no influence: for every
\* create or update carrying one, validation, the date pre-check and the data
\* written are those of the same request without it, and the stored total of
\* a request served alone is the sum of the stored counts.
WithoutTotal(body) == Restrict(body, DOMAIN body \ {"total_eggs"})
C9_TotalNotTrusted ==
  /\ \A q \in Pending :
       (q.op = "eggPOST" /\ "total_eggs" \in DOMAIN q.body)
         => EggCreateData(q.body) = EggCreateData(WithoutTotal(q.body))
  /\ \A q \in Pending :
       (q.op = "eggPUT" /\ "total_eggs" \in DOMAIN q.body)
         => /\ EggUpdateData(q.body, q.existing)
                 = EggUpdateData(WithoutTotal(q.body), q.existing)
            /\ EggDateChanged(q.body, q.existing)
                 = EggDateChanged(WithoutTotal(q.body), q.existing)
  /\ (resp.op \in {"eggPOST", "eggPUT"} /\ "total_eggs" \in DOMAIN resp.body)
       => /\ eggInventorySchema(resp.body)
               = eggInventorySchema(WithoutTotal(resp.body))
          /\ updateEggInventorySchema(resp.body)
               = updateEggInventorySchema(WithoutTotal(resp.body))
          /\ resp.status \in {200, 201}
               => \A g \in resp.result : g.total_eggs = EggTotal(g)
\* an update carrying total_eggs 999 stored the sum instead
C9_Witness ==
  /\ resp.op = "eggPUT" /\ resp.status = 200
  /\ "total_eggs" \in DOMAIN resp.body
  /\ \E g \in resp.result : g.total_eggs * 1000 # resp.body.total_eggs

\* C10: every valid Employee input whose aadharNumber is not stored is
\* answered 201 with an id no stored record has, and a get of that id right
\* after it answers 200 with the eight fields equal to the input.
C10_CreateThenGet ==
  [][/\ (/\ resp'.op = "empPOST"
          /\ employeeSchema(resp'.body) /\ IsInteger(resp'.body.age)
          /\ ~\E e \in employees : e.aadharNumber = resp'.body.aadharNumber)
         => /\ resp'.status = 201
            /\ ~\E e \in employees : e.id = resp'.id
     /\ (/\ resp.op = "empPOST" /\ resp.status = 201
          /\ resp'.op = "empGET" /\ resp'.id = resp.id)
         => /\ resp'.status = 200
            /\ \A e \in resp'.result :
                 EmployeeJson(e) = EmployeeParsed(resp.body)]_vars

\* C12: a successful Employee update stores the supplied value of every
\* editable field in the body and sets updatedAt to the time of the update;
\* every editable field not in the body keeps its stored value, id and
\* createdAt stay as they were (also when the body carries id or createdAt
\* keys), and no other record changes.
C12_UpdateFrame ==
  [][(resp'.op = "empPUT" /\ resp'.status = 200)
     => /\ Cardinality(resp'.result) = 1
        /\ \E old \in employees : old.id = resp'.id
        /\ \A old \in employees : \A new \in resp'.result :
             old.id = resp'.id =>
               LET S == EmployeeFields \cap DOMAIN resp'.body IN
                 /\ \A k \in S : EmployeeJson(new)[k] = resp'.body[k]
                 /\ \A k \in EmployeeFields \ S : new[k] = old[k]
                 /\ new.id = old.id /\ new.createdAt = old.createdAt
                 /\ new.updatedAt = now /\ new.updatedAt > old.updatedAt
                 /\ employees' = (employees \ {old}) \cup {new}]_vars
\* an update whose body carried id and createdAt keys succeeded
C12_Witness ==
  /\ resp.op = "empPUT" /\ resp.status = 200
  /\ {"id", "createdAt"} \subseteq DOMAIN resp.body
  /\ \E e \in employees :
       /\ e.id = resp.id /\ e.id # resp.body.id
       /\ e.createdAt # resp.body.createdAt
       /\ e.fullName = resp.body.fullName
       /\ e.updatedAt > e.createdAt

\* C13: for both lists, with a limit L >= 1: every page response reports
\* total = the number of stored records and totalPages = ceil(total / L),
\* page p holds the records at positions (p-1)*L+1 .. min(p*L, total) of the
\* descending order, and with the store unchanged between two requests with
\* the same limit, two different pages share no record (so pages
\* 1..totalPages together hold every record exactly once).
PageOfDescending(r, S, key) ==
  LET L == r.pagination.limit
      first == (r.pagination.page - 1) * L + 1
      last == IF r.pagination.page * L < Cardinality(S)
              THEN r.pagination.page * L ELSE Cardinality(S)
  IN /\ r.status = 200
     /\ r.pagination.total = Cardinality(S)
     /\ r.pagination.totalPages * L >= Cardinality(S)
     /\ (r.pagination.totalPages - 1) * L < Cardinality(S)
     /\ Len(r.result) = (IF last >= first THEN last - first + 1 ELSE 0)
     /\ \A i \in 1..Len(r.result) :
          /\ r.result[i] \in S
          /\ Cardinality({x \in S : x[key] > r.result[i][key]})
               <= first + i - 2
          /\ Cardinality({x \in S : x[key] >= r.result[i][key]})
               >= first + i - 1
C13_Pagination ==
  [][/\ resp'.op = "empLIST" => PageOfDescending(resp', employees, "createdAt")
     /\ resp'.op = "eggLIST" => PageOfDescending(resp', eggs, "date")
     /\ (/\ resp'.op \in {"empLIST", "eggLIST"} /\ resp.op = resp'.op
         /\ resp.pagination.limit = resp'.pagination.limit
         /\ resp.pagination.page # resp'.pagination.page)
        => \A i \in 1..Len(resp.result) : \A j \in 1..Len(resp'.result) :
             resp.result[i] # resp'.result[j]]_vars

\* C14: for both entities, a create or update whose JSON body fails the
\* schema (a required field missing on create, a value out of range, or a
\* value of the wrong type) answers 400 with the validation error and the
\* list of the failing fields, and no stored record is created or changed.
FailsEmployeeSchema(op, body) ==
  \/ op = "empPOST" /\ ~(EmployeeFields \subseteq DOMAIN body)
  \/ Mistyped(body) \cap EmployeeFields # {}
  \/ "age" \in DOMAIN body
       /\ (body.age < Num(MinAge, 0) \/ body.age > Num(MaxAge, 0))
FailsEggSchema(op, body) ==
  \/ op = "eggPOST" /\ ~(EggFields \subseteq DOMAIN body)
  \/ Mistyped(body) \cap EggFields # {}
  \/ \E k \in EggCountFields \cap DOMAIN body :
       body[k] < 0 \/ ~IsInteger(body[k])
C14_InvalidBodyRejected ==
  [][/\ (resp'.op \in {"empPOST", "empPUT"} /\ resp'.body # NotJson
          /\ FailsEmployeeSchema(resp'.op, resp'.body))
         => /\ resp'.status = 400 /\ resp'.error = "validation"
            /\ resp'.result # {} /\ resp'.result \subseteq EmployeeFields
            /\ employees' = employees /\ eggs' = eggs
     /\ (resp'.op \in {"eggPOST", "eggPUT"} /\ resp'.body # NotJson
          /\ FailsEggSchema(resp'.op, resp'.body))
         => /\ resp'.status = 400 /\ resp'.error = "validation"
            /\ resp'.result # {} /\ resp'.result \subseteq EggFields
            /\ employees' = employees /\ eggs' = eggs]_vars
\* an update of a stored record with a date of the wrong type was refused
C14_Witness ==
  /\ resp.op = "eggPUT" /\ resp.status = 400 /\ resp.error = "validation"
  /\ resp.result = {"date"} /\ "date" \in Mistyped(resp.body)
  /\ \E g \in eggs : g.id = resp.id
  /\ employees # {}

\* C15: a POST or PUT (either entity) whose body cannot be parsed as JSON is
\* answered 400 as a validation failure, and the stores are unchanged.
C15_MalformedBodyIs400 ==
  [][(/\ resp'.op \in {"empPOST", "empPUT", "eggPOST", "eggPUT"}
      /\ resp'.body = NotJson)
     => /\ resp'.status = 400 /\ resp'.error = "validation"
        /\ employees' = employees /\ eggs' = eggs]_vars

\* C16: Employee validation accepts an age exactly when it is an integer
\* from 18 to 100: a create or update carrying such an age gets no
\* validation issue for age, and one carrying any other number (below 18,
\* above 100, or not an integer) answers 400 with a validation error naming
\* age and stores nothing.
C16_AgeIntegerInRange ==
  [][(/\ resp'.op \in {"empPOST", "empPUT"} /\ resp'.body # NotJson
      /\ "age" \in DOMAIN resp'.body)
     => IF /\ IsInteger(resp'.body.age)
           /\ resp'.body.age >= Num(MinAge, 0)
           /\ resp'.body.age <= Num(MaxAge, 0)
        THEN ~(resp'.error = "validation" /\ "age" \in resp'.result)
        ELSE /\ resp'.status = 400 /\ resp'.error = "validation"
             /\ "age" \in resp'.result
             /\ employees' = employees]_vars

\* C17: an EggInventory create whose body has three valid counts and no
\* date answers 201 and stores a record whose date is the creation time.
C17_DateDefaultsToNow ==
  [][(/\ resp'.op = "eggPOST" /\ resp'.body # NotJson
      /\ EggCountFields \subseteq DOMAIN resp'.body
      /\ "date" \notin DOMAIN resp'.body \cup Mistyped(resp'.body)
      /\ \A k \in EggCountFields :
           IsInteger(resp'.body[k]) /\ resp'.body[k] >= 0)
     => /\ resp'.status = 201
        /\ resp'.result # {} /\ resp'.result \subseteq eggs'
        /\ \A g \in resp'.result : g.date = g.created_at]_vars

\* C18: for both entities, when a create, update or delete mutation settles
\* with success, no cached list query of that entity is left fresh (all are
\* invalidated), and after a create or update the single-record cache entry
\* of that id holds, fresh, the record the server returned.
C18_CacheAfterMutation ==
  [][(/\ resp # NoResp /\ resp' = NoResp
      /\ HookOf(resp.op) # "useQuery" /\ Ok(resp))
     => /\ resp.op \in {"empPOST", "empPUT", "empDELETE"}
             => \A q \in ClientQueries :
                  cache'.employeeLists[q].state # "fresh"
        /\ resp.op \in {"eggPOST", "eggPUT", "eggDELETE"}
             => \A q \in ClientQueries :
                  cache'.eggInventories[q].state # "fresh"
        /\ resp.op \in {"empPOST", "empPUT"}
             => \A e \in resp.result : cache'.employeeDetail[e.id] = Fresh(e)
        /\ resp.op \in {"eggPOST", "eggPUT"}
             => \A g \in resp.result : cache'.eggInventory[g.id] = Fresh(g)]_vars

\* C19: every control (the two forms' submit buttons, the two lists' delete
\* buttons) has at most one mutation in flight, and while it has one the
\* control is disabled.
ControlDisabled(control) ==
  CASE control = "EmployeeForm" -> EmployeeFormIsLoading
    [] control = "EggInventoryForm" -> EggFormDisabled
    [] control = "EmployeeList" -> IsPending("useDeleteEmployee")
    [] control = "EggInventoryList" -> IsPending("useDeleteEgg")
C19_OneMutationPerControl ==
  \A m \in BagToSet(mutations) :
    /\ CopiesIn(m, mutations) = 1
    /\ \A other \in BagToSet(mutations) :
         other.control = m.control => other = m
    /\ ControlDisabled(m.control)
\* an employee update and an egg delete are in flight together, one of them
\* at the server
C19_Witness ==
  /\ \E m \in BagToSet(mutations) :
       m.control = "EmployeeForm" /\ m.hook = "useUpdateEmployee"
  /\ \E m \in BagToSet(mutations) : m.control = "EggInventoryList"
  /\ inflight # EmptyBag

\* C20: a successful delete (either entity) leaves no stored record with the
\* deleted record's id nor with its key (aadharNumber, date); a get of an id
\* no record has answers 404, a list holds stored records only, and a valid
\* create whose key no record has answers 201. Together: after the delete
\* the record is gone from get and lists and a following create with its
\* key succeeds.
C20_DeletedIsGone ==
  [][/\ (resp'.op = "empDELETE" /\ resp'.status = 200)
         => \E e \in employees :
              /\ e.id = resp'.id
              /\ \A x \in employees' :
                   x.id # e.id /\ x.aadharNumber # e.aadharNumber
     /\ (resp'.op = "eggDELETE" /\ resp'.status = 200)
         => \E g \in eggs :
              /\ g.id = resp'.id
              /\ \A x \in eggs' : x.id # g.id /\ x.date # g.date
     /\ (resp'.op = "empGET" /\ \A e \in employees : e.id # resp'.id)
         => resp'.status = 404
     /\ (resp'.op = "eggGET" /\ \A g \in eggs : g.id # resp'.id)
         => resp'.status = 404
     /\ resp'.op = "empLIST"
         => \A i \in 1..Len(resp'.result) : resp'.result[i] \in employees
     /\ resp'.op = "eggLIST"
         => \A i \in 1..Len(resp'.result) : resp'.result[i] \in eggs
     /\ (/\ resp'.op = "empPOST" /\ resp'.body # NotJson
         /\ employeeSchema(resp'.body) /\ IsInteger(resp'.body.age)
         /\ \A e \in employees : e.aadharNumber # resp'.body.aadharNumber)
        => resp'.status = 201
     /\ (/\ resp'.op = "eggPOST" /\ resp'.body # NotJson
         /\ eggInventorySchema(resp'.body)
         /\ \A g \in eggs : g.date # DateParse(resp'.body.date))
        => resp'.status = 201]_vars

\* C21: an EggInventory list request with page and limit >= 1 and with
\* startDate and endDate each absent or a date answers 200 with the page of
\* the descending date order of exactly the stored records whose date is
\* >= startDate (when given) and <= endDate (when given); pagination.total
\* is the number of those records, and with neither given all records match.
PositivePaging(query) == QueryPage(query) >= 1 /\ QueryLimit(query) >= 1
DateGiven(query, k) == k \in DOMAIN query /\ query[k] # <<>>
DatesInRange(query) ==
  {g \in eggs :
     \A k \in {"startDate", "endDate"} :
       DateGiven(query, k) =>
         IF k = "startDate" THEN DateParse(query[k]) <= g.date
         ELSE g.date <= DateParse(query[k])}
C21_DateFilter ==
  [][(/\ resp'.op = "eggLIST" /\ PositivePaging(resp'.body)
      /\ \A k \in {"startDate", "endDate"} :
           DateGiven(resp'.body, k) => resp'.body[k].form # "text")
     => /\ PageOfDescending(resp', DatesInRange(resp'.body), "date")
        /\ (\A k \in {"startDate", "endDate"} : ~DateGiven(resp'.body, k))
             => resp'.pagination.total = Cardinality(eggs)]_vars
\* a filter with both bounds left out one of two stored records
C21_Witness ==
  /\ resp.op = "eggLIST" /\ resp.status = 200
  /\ DateGiven(resp.body, "startDate") /\ DateGiven(resp.body, "endDate")
  /\ resp.pagination.total = 1 /\ Len(resp.result) = 1
  /\ Cardinality(eggs) = 2

\* C22: an Employee list request with page and limit >= 1 answers 200 with
\* the page of the descending creation order of exactly the stored employees
\* whose fullName contains the search text ignoring case, or whose
\* phoneNumber or aadharNumber contains it; pagination.total is the number of
\* those employees, and with an empty or absent search text it is the
\* number of all employees.
SearchGiven(query) == "search" \in DOMAIN query /\ query.search # <<>>
SearchMatches(query) ==
  {e \in employees :
     SearchGiven(query) =>
       \/ ContainsInsensitive(e.fullName, query.search)
       \/ Contains(e.phoneNumber, query.search)
       \/ Contains(e.aadharNumber, query.search)}
C22_Search ==
  [][(resp'.op = "empLIST" /\ PositivePaging(resp'.body))
     => /\ PageOfDescending(resp', SearchMatches(resp'.body), "createdAt")
        /\ ~SearchGiven(resp'.body)
             => resp'.pagination.total = Cardinality(employees)]_vars
\* a search text in capitals found the one of two employees whose name has
\* it in small letters
C22_Witness ==
  /\ resp.op = "empLIST" /\ resp.status = 200
  /\ SearchGiven(resp.body)
  /\ Cardinality(employees) = 2
  /\ Len(resp.result) = 1 /\ resp.pagination.total = 1
  /\ ~Contains(resp.result[1].fullName, resp.body.search)
  /\ ContainsInsensitive(resp.result[1].fullName, resp.body.search)

\* C27: whatever page and limit texts the caller supplies (zero, negative,
\* not a number), every list response of status 200 reports page >= 1 and
\* limit >= 1, holds at most limit records, and reports totalPages as the
\* non-negative integer ceil(total / limit).
C27_SanePagination ==
  [][(resp'.op \in {"empLIST", "eggLIST"} /\ resp'.status = 200)
     => /\ resp'.pagination.page >= 1
        /\ resp'.pagination.limit >= 1
        /\ Len(resp'.result) <= resp'.pagination.limit
        /\ resp'.pagination.totalPages # JsonNull
        /\ resp'.pagination.totalPages >= 0
        /\ resp'.pagination.totalPages
             = Ceil(resp'.pagination.total, resp'.pagination.limit)]_vars

\* C23: every request to either endpoint, whatever its input and whichever
\* of its database calls fails, ends with exactly one response: a step sends
\* a response exactly when it ends a request or serves one whole, a request
\* in flight is always answered in the end, every status is one of 200,
\* 201, 400, 404, 500, and a 500 response carries the generic internal
\* error and nothing else.
C23_OneResponse ==
  /\ [][/\ resp' # NoResp
            => /\ resp'.status \in {200, 201, 400, 404, 500}
               /\ resp'.status = 500
                    => resp'.error = "internal" /\ resp'.result = None
               /\ BagCardinality(inflight') <= BagCardinality(inflight)
        /\ resp' = NoResp
            => /\ inflight' # inflight
               /\ BagCardinality(inflight') >= BagCardinality(inflight)
        /\ \A q \in Pending :
             inflight' = Resume(q) => resp' # NoResp /\ resp'.op = q.op]_vars
  /\ (inflight # EmptyBag) ~> (inflight = EmptyBag)
\* the update of a stored record was answered 500 though the record is
\* stored and the body is valid: its database call failed
C23_Witness ==
  /\ resp.op = "eggPUT" /\ resp.status = 500 /\ resp.body # NotJson
  /\ \E g \in eggs : g.id = resp.id
  /\ inflight = EmptyBag

\* C24: of two concurrent requests on one existing id, a DELETE beside a
\* DELETE or a PUT, the one whose write comes after the record was removed
\* answers 404; a DELETE answers 200 only when its own write removed the
\* record, so at most one of two does.
Stored(q) ==
  IF q.op \in {"empPUT", "empDELETE"} THEN EmployeeById(q.id) # {}
  ELSE EggById(q.id) # {}
C24_WriteAfterRemoval ==
  [][\A q \in Pending :
       (/\ q.op \in {"empPUT", "empDELETE", "eggPUT", "eggDELETE"}
        /\ q.pc = "write" /\ Answers(q))
       => /\ ~Stored(q) => resp'.status = 404
          /\ (q.op \in {"empDELETE", "eggDELETE"} /\ resp'.status = 200)
               => /\ Stored(q)
                  /\ EmployeeById(q.id)' = {} /\ EggById(q.id)' = {}]_vars

\* C25: a PUT served alone answers by the first of these that applies: no
\* id, 400; a body failing the schema, 400 (also when no record has the id);
\* no record with the id, 404; the supplied key (aadharNumber, date) held by
\* another record, 400; otherwise 200. Every answer but 200 leaves the
\* stores as they were, and a DELETE without an id answers 400 and changes
\* nothing.
PutBodyValid(r) ==
  IF r.op = "empPUT" THEN updateEmployeeSchema(r.body)
  ELSE updateEggInventorySchema(r.body)
PutRecordStored(r) ==
  IF r.op = "empPUT" THEN \E e \in employees : e.id = r.id
  ELSE \E g \in eggs : g.id = r.id
PutKeyTaken(r) ==
  IF r.op = "empPUT"
  THEN /\ "aadharNumber" \in DOMAIN r.body
       /\ \E e \in employees :
            e.id # r.id /\ e.aadharNumber = r.body.aadharNumber
  ELSE /\ "date" \in DOMAIN r.body
       /\ \E g \in eggs : g.id # r.id /\ g.date = DateParse(r.body.date)
C25_CheckOrder ==
  [][/\ (resp'.op \in {"empPUT", "eggPUT"} /\ resp'.body # NotJson)
         => /\ resp'.status =
                 (IF resp'.id = NoId THEN 400
                  ELSE IF ~PutBodyValid(resp') THEN 400
                  ELSE IF ~PutRecordStored(resp') THEN 404
                  ELSE IF PutKeyTaken(resp') THEN 400
                  ELSE 200)
            /\ resp'.status # 200 => employees' = employees /\ eggs' = eggs
     /\ (resp'.op \in {"empDELETE", "eggDELETE"} /\ resp'.id = NoId)
         => /\ resp'.status = 400
            /\ employees' = employees /\ eggs' = eggs]_vars

\* C26: under every interleaving of concurrent Employee updates, the write
\* of an update that supplies no aadharNumber, on a record still stored,
\* answers 200 and leaves the record with the supplied values and, in every
\* other field, the values the store held just before the write -- those
\* written meanwhile by a concurrent update of other fields included. So two
\* concurrent updates of disjoint fields both succeed and neither is lost.
C26_NoLostUpdate ==
  [][\A q \in Pending :
       (/\ q.op = "empPUT" /\ q.pc = "write" /\ Answers(q)
        /\ "aadharNumber" \notin DOMAIN q.data
        /\ EmployeeById(q.id) # {})
       => /\ resp'.status = 200
          /\ EmployeeById(q.id)' # {}
          /\ \A old \in EmployeeById(q.id) : \A new \in EmployeeById(q.id)' :
               /\ \A k \in DOMAIN q.data : EmployeeJson(new)[k] = q.data[k]
               /\ \A k \in EmployeeFields \ DOMAIN q.data :
                    new[k] = old[k]]_vars
\* one update has written the name while another, which read the record
\* before that write and supplies age and salary, waits to write
C26_Witness ==
  /\ resp.op = "empPUT" /\ resp.status = 200
  /\ DOMAIN resp.body = {"fullName"}
  /\ \E e \in employees : e.id = resp.id /\ e.fullName = resp.body.fullName
  /\ \E q \in Pending :
       /\ q.op = "empPUT" /\ q.pc = "write" /\ q.id = resp.id
       /\ DOMAIN q.data = {"age", "salary"}

\* C29: when a delete mutation of either entity settles with success, the
\* cache holds no single-record entry for the deleted id, so a later
\* useEmployee or useEgg of that id has no cached record to show.
C29_NoDetailAfterDelete ==
  [][(/\ resp # NoResp /\ resp' = NoResp
      /\ resp.op \in {"empDELETE", "eggDELETE"} /\ Ok(resp))
     => /\ resp.op = "empDELETE" => cache'.employeeDetail[resp.id] = NoEntry
        /\ resp.op = "eggDELETE" => cache'.eggInventory[resp.id] = NoEntry]_vars

\* C28: when a useDeleteEmployees mutation settles, with success or with an
\* error, every employee its fetches have deleted on the server has no
\* single-record cache entry, and if it deleted any, no employee list query
\* is left fresh.
C28_BulkDeleteCache ==
  [][(BulkPending /\ ~BulkPending')
     => \A m \in BagToSet(mutations) :
          IsBulk(m) =>
            LET deleted == IF Ok(resp) THEN m.deleted \cup {resp.id}
                           ELSE m.deleted
            IN /\ \A id \in deleted : cache'.employeeDetail[id] = NoEntry
               /\ deleted # {} =>
                    \A q \in ClientQueries :
                      cache'.employeeLists[q].state # "fresh"]_vars

\* C30: whenever the employee list page has a result loaded for the page and
\* search it is on, its page p satisfies 1 <= p <= max(1, totalPages) of
\* that result.
C30_PageInRange ==
  ViewLoaded =>
    /\ 1 <= view.page
    /\ view.page <= (IF ViewData.pagination.totalPages > 1
                     THEN ViewData.pagination.totalPages ELSE 1)

\* C11: for both entities, a DELETE whose id matches no stored record
\* answers 404 Not-Found and leaves both stores as they were; it never
\* answers 200.
C11_DeleteUnknownId ==
  [][/\ (resp'.op = "empDELETE" /\ ~\E e \in employees : e.id = resp'.id)
         => /\ resp'.status = 404 /\ resp'.error = "notfound"
            /\ employees' = employees /\ eggs' = eggs
     /\ (resp'.op = "eggDELETE" /\ ~\E g \in eggs : g.id = resp'.id)
         => /\ resp'.status = 404 /\ resp'.error = "notfound"
            /\ employees' = employees /\ eggs' = eggs]_vars
\* a delete of an id deleted before was answered 404 beside stored records
C11_Witness ==
  /\ resp.op = "eggDELETE" /\ resp.status = 404
  /\ resp.id < nextEggId
  /\ eggs # {} /\ employees # {}
====
